---------------------------- MODULE Spec2Model ----------------------------
(***************************************************************************)
(* TI-99 keyboard to USB (tiarduino.ino): the matrix scan of loop(), the   *)
(* alpha lock probe, the modifier probe and the typematic policy, as a     *)
(* state machine.  One step of the model is one statement group of the     *)
(* sketch: the head of loop(), the two halves of checkAlphaLock(), the two *)
(* halves of scan_row(), and one iteration of the column loop.             *)
(*                                                                         *)
(* The keyboard itself (which switches are closed, the alpha lock switch,  *)
(* the level of the enable pin) is the environment.  It is sampled when    *)
(* loop() is entered and stays as it is for that invocation.               *)
(*                                                                         *)
(* Spec lets the keyboard be in any state at every invocation, for a few   *)
(* invocations.  SpecHold, SpecIdle, SpecTap, SpecWrap and SpecIdleWrap    *)
(* run the same steps with the keyboard operated in a particular way for   *)
(* many invocations: a key held from the start, a key released and pressed *)
(* again after a long or a short while, a key held until count reaches the *)
(* largest int, a keyboard left alone until idlecount passes the largest   *)
(* unsigned long.                                                          *)
(***************************************************************************)
EXTENDS Integers, Sequences, FiniteSets

VARIABLES
    pc,            \* position in the sketch
    i,             \* loop(): current row
    j,             \* loop(): current column
    previousRow,   \* loop(): row activated last
    modifier,      \* loop(): result of modifierPressed()
    alphaLockOff,  \* checkAlphaLock(): the level read on colPins[7]
    previousKey,   \* global
    currentKey,    \* global
    count,         \* global, int
    idlecount,     \* global, unsigned long
    alphaLock,     \* static int of checkAlphaLock()
    lockTaps,      \* history: the caps lock taps sent since setup(), modulo 2
    rowPinMode,    \* mode of rowPins[r]: "INPUT" or "OUTPUT" (driven LOW)
    lockPinMode,   \* mode of alphaLockRowPin: "INPUT_PULLUP" or "OUTPUT" (driven LOW)
    closed,        \* environment: the matrix cells <<r, c>> whose switch is closed
    lockClosed,    \* environment: the alpha lock switch is closed
    enablePin,     \* environment: level of enablePin
    sink,          \* the calls of this loop() invocation to Keyboard.* and delay()
    order,         \* the probes of this loop() invocation, in program order
    pass           \* number of loop() invocations started

vars == <<pc, i, j, previousRow, modifier, alphaLockOff, previousKey, currentKey,
          count, idlecount, alphaLock, lockTaps, rowPinMode, lockPinMode, closed, lockClosed,
          enablePin, sink, order, pass>>

-----------------------------------------------------------------------------
(* Constants of the sketch *)

ROWS == 6

COLS == 8

SHIFT == 5

CTRL == 6

FCTN == 7

KBD_DELAY == 150

RPT_DELAY == 50

LOW == 0

HIGH == 1

\* if (count > 150)
RepeatThreshold == 150

\* (idlecount >= 10000)
IdleThreshold == 10000

\* Keyboard.h key codes
KEY_LEFT_CTRL == 128

KEY_LEFT_SHIFT == 129

KEY_LEFT_ALT == 130

KEY_CAPS_LOCK == 193

\* int is 16 bits wide on the ATmega32U4 of the Arduino Micro
IntBits == 16

MaxInt == 2^(IntBits - 1) - 1

MinInt == -(2^(IntBits - 1))

\* unsigned long is 32 bits wide: idlecount is kept as two 16-bit halves,
\* <<high, low>>, its value being high * 2^16 + low
HalfMod == 2^IntBits

ULongZero == <<0, 0>>

\* the unsigned long whose value is n, for 0 <= n < 2^16
ULong(n) == <<0, n>>

\* char keys[ROWS][COLS], as character codes; 0 is '\0'
keys ==
    << <<47, 59, 112, 48, 122, 97, 113, 49>>,     \* / ; p 0 z a q 1
       <<46, 108, 111, 57, 120, 115, 119, 50>>,   \* . l o 9 x s w 2
       <<44, 107, 105, 56, 99, 100, 101, 51>>,    \* , k i 8 c d e 3
       <<109, 106, 117, 55, 118, 102, 114, 52>>,  \* m j u 7 v f r 4
       <<110, 104, 121, 54, 98, 103, 116, 53>>,   \* n h y 6 b g t 5
       <<61, 32, 10, 0, 0, 0, 0, 0>> >>           \* = space \n \0 ...

\* keys[r][c] with the sketch's indices from 0
KeyAt(r, c) == keys[r + 1][c + 1]

\* a variant: every row is scanned to the last column
columns_AllEight == <<8, 8, 8, 8, 8, 8>>

\* int columns[] = {8, 8, 8, 8, 8, 3}
columns == <<8, 8, 8, 8, 8, 3>>

\* a variant: the last row scanned to the last column, like the others
ColumnsOf_AllColumns(r) == COLS

\* a variant: the last row is scanned up to and including the SHIFT column
ColumnsOf_ThroughShift(r) == IF r = ROWS - 1 THEN SHIFT + 1 ELSE columns[r + 1]

\* the bound of the column loop: j < columns[i]
ColumnsOf(r) == columns[r + 1]

Rows == 0 .. (ROWS - 1)

Cols == 0 .. (COLS - 1)

-----------------------------------------------------------------------------
(* Bounds of the model *)

\* loop() invocations explored by Spec
MaxPass == 3

\* the switches the environment operates: q (0,6), b (4,4), space (5,1)
TestCells == { <<0, 6>>, <<4, 4>>, <<5, 1>> }

\* the modifier switches, on the last row
ModCells == { <<ROWS - 1, SHIFT>>, <<ROWS - 1, CTRL>>, <<ROWS - 1, FCTN>> }

\* most regular keys held at once
MaxKeysDown == 2

\* loop() invocations explored by SpecHold, where a key stays held from the start
MaxHoldPass == 154

\* loop() invocations explored by SpecIdle, where a key is tapped and comes back
MaxIdlePass == 236

\* the invocations after which SpecIdle releases the key: held for 19 or 20
\* invocations and read again in invocation 234, the key meets idlecount at
\* exactly 10000 or at 9999
ReleaseAfter == {1, 19, 20}

\* SpecTap: the key is down for the first TapHold invocations, up for the
\* next TapGap, and down again until invocation MaxTapPass
TapHold == 100

TapGap == 2

MaxTapPass == 155

\* SpecIdleWrap starts IdleWrapLead invocations before an idle keyboard's
\* idlecount passes the largest unsigned long and runs IdleWrapTail
\* invocations beyond that
IdleWrapLead == 2

IdleWrapTail == 3

\* SpecWrap starts WrapLead invocations before count reaches the largest int
\* and runs WrapTail invocations beyond it
WrapLead == 2

WrapTail == 3

EnvConfigs ==
    { [closed |-> ks \cup ms, lockClosed |-> l, enablePin |-> e] :
        ks \in { s \in SUBSET TestCells : Cardinality(s) <= MaxKeysDown },
        ms \in SUBSET ModCells, l \in BOOLEAN, e \in {LOW, HIGH} }

-----------------------------------------------------------------------------
(* The pins *)

\* digitalRead(colPins[c]): the column is pulled up and reads LOW when a
\* closed switch connects it to a line driven LOW.  The alpha lock switch
\* sits between alphaLockRowPin and colPins[7].
digitalReadCol(c) ==
    IF \/ \E r \in Rows : rowPinMode[r] = "OUTPUT" /\ <<r, c>> \in closed
       \/ lockPinMode = "OUTPUT" /\ c = COLS - 1 /\ lockClosed
    THEN LOW ELSE HIGH

\* setup_pins(): rows INPUT, alpha lock INPUT_PULLUP
setup_pins_rows == [r \in Rows |-> "INPUT"]

\* pinMode(rowPins[r], INPUT)
pinModeInput(modes, r) == [modes EXCEPT ![r] = "INPUT"]

\* pinMode(rowPins[r], OUTPUT); digitalWrite(rowPins[r], LOW)
pinModeOutputLow(modes, r) == [modes EXCEPT ![r] = "OUTPUT"]

\* a variant: the previous row is left driven
scan_row_float_Missing(modes, prev) == modes

\* scan_row(), first statement: the previously active row floats
scan_row_float(modes, prev) == pinModeInput(modes, prev)

\* scan_row(), the other two statements: the current row is driven LOW
scan_row_drive(modes, cur) == pinModeOutputLow(modes, cur)

\* a variant: the last row stays driven
disable_lastrow_Missing(modes) == modes

\* disable_lastrow()
disable_lastrow(modes) == pinModeInput(modes, ROWS - 1)

\* a variant: the enable pin is not looked at
IsEnabled_Always(level) == TRUE

\* if (enableState == HIGH)
IsEnabled(level) == level = HIGH

\* a variant: a tap in every pass that finds the switch closed
LockTurnedOn_Level(off, lock) == off = LOW

\* if (!alphaLockOff && !alphaLock)
LockTurnedOn(off, lock) == off = LOW /\ lock = 0

\* a variant: the test of the latched state is left out
LockTurnedOff_Level(off, lock) == off # LOW

\* else if (alphaLockOff && alphaLock)
LockTurnedOff(off, lock) == off # LOW /\ lock # 0

\* a variant: the row loop steps by two
NextRow_Skip(r) == r + 2

\* i++ of the row loop
NextRow(r) == r + 1

\* a variant: CTRL is tested before SHIFT
modifierPressed_CtrlFirst ==
    IF digitalReadCol(CTRL) = LOW THEN CTRL
    ELSE IF digitalReadCol(SHIFT) = LOW THEN SHIFT
    ELSE IF digitalReadCol(FCTN) = LOW THEN FCTN
    ELSE 0

\* int modifierPressed()
modifierPressed ==
    IF digitalReadCol(SHIFT) = LOW THEN SHIFT
    ELSE IF digitalReadCol(CTRL) = LOW THEN CTRL
    ELSE IF digitalReadCol(FCTN) = LOW THEN FCTN
    ELSE 0

\* void pressModifier(int modifier): the Keyboard.press calls it makes
pressModifier(m) ==
    IF m = SHIFT THEN << <<"press", KEY_LEFT_SHIFT>> >>
    ELSE IF m = CTRL THEN << <<"press", KEY_LEFT_CTRL>> >>
    ELSE IF m = FCTN THEN << <<"press", KEY_LEFT_ALT>> >>
    ELSE << >>

\* if (modifier) pressModifier(modifier);
IfModifier(m) == IF m # 0 THEN pressModifier(m) ELSE << >>

\* n >= t on an unsigned long n, for a threshold t < 2^16
ULongGE(n, t) == n[1] > 0 \/ n[2] >= t

\* a variant: any column sample without a key since the last emission makes
\* the next read a fresh press
IsFresh_AnyIdle(cur, prev, idle) == cur # prev \/ ULongGE(idle, 1)

\* a variant: idlecount > 10000
IsFresh_Above(cur, prev, idle) == cur # prev \/ ULongGE(idle, IdleThreshold + 1)

\* (currentKey != previousKey) || (idlecount >= 10000)
IsFresh(cur, prev, idle) == cur # prev \/ ULongGE(idle, IdleThreshold)

\* a variant: count >= 150
IsRepeat_AtThreshold(c) == c >= RepeatThreshold

\* count > 150
IsRepeat(c) == c > RepeatThreshold

\* a variant: idlecount++ once per row, at the row's last column
IncIdle_PerRow(n) ==
    IF j + 1 < ColumnsOf(i) THEN n
    ELSE IF n[2] + 1 < HalfMod THEN <<n[1], n[2] + 1>>
    ELSE <<(n[1] + 1) % HalfMod, 0>>

\* idlecount++ on an unsigned long: the carry goes into the high half and
\* out of the high half it is lost
IncIdle(n) ==
    IF n[2] + 1 < HalfMod THEN <<n[1], n[2] + 1>>
    ELSE <<(n[1] + 1) % HalfMod, 0>>

\* a variant: the key is pressed before the modifier
FreshCalls_KeyFirst(m, k) ==
    << <<"press", k>> >> \o IfModifier(m) \o << <<"delay", KBD_DELAY>>, <<"releaseAll", 0>> >>

\* the calls of a fresh press: modifier, key, hold, release
FreshCalls(m, k) ==
    IfModifier(m) \o << <<"press", k>>, <<"delay", KBD_DELAY>>, <<"releaseAll", 0>> >>

\* the calls of a repeat: modifier, key, shorter hold, release
RepeatCalls(m, k) ==
    IfModifier(m) \o << <<"press", k>>, <<"delay", RPT_DELAY>>, <<"releaseAll", 0>> >>

\* a variant: a sustained hold below the threshold calls nothing
HoldCalls_Nothing == << >>

\* a sustained hold below the threshold only reaches Keyboard.releaseAll()
HoldCalls == << <<"releaseAll", 0>> >>

\* the caps lock taps among calls: each begins with Keyboard.press(KEY_CAPS_LOCK)
IsLockPress(call) == call = <<"press", KEY_CAPS_LOCK>>

LockTapsIn(calls) == Len(SelectSeq(calls, IsLockPress))

\* a variant: caps lock is pressed and not released
LockTap_PressOnly == << <<"press", KEY_CAPS_LOCK>> >>

\* Keyboard.press(KEY_CAPS_LOCK); Keyboard.release(KEY_CAPS_LOCK);
LockTap == << <<"press", KEY_CAPS_LOCK>>, <<"release", KEY_CAPS_LOCK>> >>

-----------------------------------------------------------------------------
(* The state after setup(): rows floating except the last one, which is   *)
(* driven LOW for the first run; globals as initialised.                   *)

\* a variant: setup() does not activate the last row
Init_LastRowFloating ==
    /\ pc = "loop"
    /\ i = 0
    /\ j = 0
    /\ previousRow = ROWS - 1
    /\ modifier = 0
    /\ alphaLockOff = HIGH
    /\ previousKey = 0
    /\ currentKey = 0
    /\ count = 0
    /\ idlecount = ULongZero
    /\ alphaLock = 0
    /\ lockTaps = 0
    /\ rowPinMode = setup_pins_rows
    /\ lockPinMode = "INPUT_PULLUP"
    /\ closed = {}
    /\ lockClosed = FALSE
    /\ enablePin = HIGH
    /\ sink = << >>
    /\ order = << >>
    /\ pass = 0

Init ==
    /\ pc = "loop"
    /\ i = 0
    /\ j = 0
    /\ previousRow = ROWS - 1
    /\ modifier = 0
    /\ alphaLockOff = HIGH
    /\ previousKey = 0
    /\ currentKey = 0
    /\ count = 0
    /\ idlecount = ULongZero
    /\ alphaLock = 0
    /\ lockTaps = 0
    /\ rowPinMode = pinModeOutputLow(setup_pins_rows, ROWS - 1)
    /\ lockPinMode = "INPUT_PULLUP"
    /\ closed = {}
    /\ lockClosed = FALSE
    /\ enablePin = HIGH
    /\ sink = << >>
    /\ order = << >>
    /\ pass = 0

scanState == <<previousKey, currentKey, count, idlecount>>

pinState == <<rowPinMode, lockPinMode>>

envState == <<closed, lockClosed, enablePin>>

-----------------------------------------------------------------------------
(* loop(), lines 245-256: the environment is sampled, the enable pin is   *)
(* read; when it is HIGH the modifier columns are read, otherwise loop()  *)
(* returns at once.                                                        *)

LoopEnter(cfg) ==
    /\ pc = "loop"
    /\ closed' = cfg.closed
    /\ lockClosed' = cfg.lockClosed
    /\ enablePin' = cfg.enablePin
    /\ pass' = pass + 1
    /\ previousRow' = ROWS - 1
    /\ sink' = << >>
    /\ UNCHANGED <<i, j, alphaLockOff, alphaLock, lockTaps, scanState, pinState>>
    /\ IF IsEnabled(enablePin')
       THEN /\ modifier' = modifierPressed'
            /\ order' = << <<"modifier", ROWS - 1>> >>
            /\ pc' = "checkAlphaLock"
       ELSE /\ modifier' = modifier
            /\ order' = << >>
            /\ pc' = "loop"

\* checkAlphaLock(), lines 151-154: float the last row, drive the lock line, read
AlphaLockProbe ==
    /\ pc = "checkAlphaLock"
    /\ rowPinMode' = disable_lastrow(rowPinMode)
    /\ lockPinMode' = "OUTPUT"
    /\ UNCHANGED <<i, j, previousRow, modifier, alphaLock, lockTaps, scanState, envState,
                   sink, pass>>
    /\ alphaLockOff' = digitalReadCol(COLS - 1)'
    /\ order' = Append(order, <<"lock", COLS - 1>>)
    /\ pc' = "alphaLockLatch"

\* checkAlphaLock(), lines 155-170: float the lock line, tap on an edge
AlphaLockLatch ==
    /\ pc = "alphaLockLatch"
    /\ lockPinMode' = "INPUT_PULLUP"
    /\ IF LockTurnedOn(alphaLockOff, alphaLock)
       THEN alphaLock' = 1 /\ sink' = sink \o LockTap
       ELSE IF LockTurnedOff(alphaLockOff, alphaLock)
       THEN alphaLock' = 0 /\ sink' = sink \o LockTap
       ELSE alphaLock' = alphaLock /\ sink' = sink
    /\ lockTaps' = (lockTaps + LockTapsIn(sink') - LockTapsIn(sink)) % 2
    /\ i' = 0
    /\ pc' = "scan_row"
    /\ UNCHANGED <<j, previousRow, modifier, alphaLockOff, scanState, rowPinMode,
                   envState, order, pass>>

\* scan_row(), line 112: pinMode(rowPins[previousRow], INPUT)
ScanRowFloat ==
    /\ pc = "scan_row"
    /\ rowPinMode' = scan_row_float(rowPinMode, previousRow)
    /\ pc' = "scan_row_drive"
    /\ UNCHANGED <<i, j, previousRow, modifier, alphaLockOff, alphaLock, lockTaps, scanState,
                   lockPinMode, envState, sink, order, pass>>

\* scan_row(), lines 113-114, and loop() line 268
ScanRowDrive ==
    /\ pc = "scan_row_drive"
    /\ rowPinMode' = scan_row_drive(rowPinMode, i)
    /\ previousRow' = i
    /\ j' = 0
    /\ order' = Append(order, <<"row", i>>)
    /\ pc' = "columns"
    /\ UNCHANGED <<i, modifier, alphaLockOff, alphaLock, lockTaps, scanState, lockPinMode,
                   envState, sink, pass>>

\* the for loops' increments after the body of the column loop has run for (i, j)
NextCell ==
    IF j + 1 < ColumnsOf(i)
    THEN /\ j' = j + 1
         /\ i' = i
         /\ pc' = "columns"
    ELSE /\ j' = j
         /\ i' = NextRow(i)
         /\ pc' = IF i' < ROWS THEN "scan_row" ELSE "loop"

\* lines 282-293, 307-308: a key that differs from the previous one, or idle timeout
FreshPress ==
    /\ pc = "columns"
    /\ digitalReadCol(j) = LOW
    /\ IsFresh(KeyAt(i, j), previousKey, idlecount)
    /\ currentKey' = KeyAt(i, j)
    /\ sink' = sink \o FreshCalls(modifier, currentKey')
    /\ count' = 0
    /\ idlecount' = ULongZero
    /\ previousKey' = currentKey'
    /\ NextCell
    /\ UNCHANGED <<previousRow, modifier, alphaLockOff, alphaLock, lockTaps, pinState, envState,
                   order, pass>>

\* lines 282, 294-308: the same key again
SustainedHold ==
    /\ pc = "columns"
    /\ digitalReadCol(j) = LOW
    /\ ~IsFresh(KeyAt(i, j), previousKey, idlecount)
    /\ currentKey' = KeyAt(i, j)
    /\ \/ /\ count < MaxInt
          /\ count' = count + 1
          /\ IF IsRepeat(count')
             THEN /\ sink' = sink \o RepeatCalls(modifier, currentKey')
                  /\ idlecount' = ULongZero
             ELSE /\ sink' = sink \o HoldCalls
                  /\ idlecount' = idlecount
       \/ \* count++ overflows the int: the stored value wraps, and the test is
          \* either made on the wrapped value or folded into a test of the old one
          /\ count = MaxInt
          /\ count' = MinInt
          /\ \/ /\ sink' = sink \o RepeatCalls(modifier, currentKey')
                /\ idlecount' = ULongZero
             \/ /\ sink' = sink \o HoldCalls
                /\ idlecount' = idlecount
    /\ previousKey' = currentKey'
    /\ NextCell
    /\ UNCHANGED <<previousRow, modifier, alphaLockOff, alphaLock, lockTaps, pinState, envState,
                   order, pass>>

\* lines 309-311: the column reads HIGH
NotPressed ==
    /\ pc = "columns"
    /\ digitalReadCol(j) # LOW
    /\ idlecount' = IncIdle(idlecount)
    /\ NextCell
    /\ UNCHANGED <<previousRow, modifier, alphaLockOff, alphaLock, lockTaps, previousKey,
                   currentKey, count, pinState, envState, sink, order, pass>>

\* the steps inside an enabled loop() invocation
Scan ==
    \/ AlphaLockProbe
    \/ AlphaLockLatch
    \/ ScanRowFloat
    \/ ScanRowDrive
    \/ FreshPress
    \/ SustainedHold
    \/ NotPressed

\* any keyboard state at every loop() invocation, MaxPass invocations
Loop ==
    /\ pass < MaxPass
    /\ \E cfg \in EnvConfigs : LoopEnter(cfg)

Next == Loop \/ Scan

Spec == Init /\ [][Next]_vars

-----------------------------------------------------------------------------
(* Scenarios: the same sketch, the keyboard operated in a particular way.  *)

\* the keyboard as it is while this loop() invocation runs
Env == [closed |-> closed, lockClosed |-> lockClosed, enablePin |-> enablePin]

\* the regular keys among a set of cells: all but the modifier switches
Regular(cells) == cells \ ModCells

\* the regular cells whose switch is closed
RegularClosed == Regular(closed)

\* one or more regular keys, at most one modifier, keyboard enabled
HoldConfigs ==
    { cfg \in EnvConfigs :
        /\ cfg.enablePin = HIGH
        /\ Regular(cfg.closed) # {}
        /\ Cardinality(cfg.closed \ Regular(cfg.closed)) <= 1 }

\* one more key goes down
SecondKeyConfigs == { [Env EXCEPT !.closed = closed \cup {cell}] : cell \in TestCells }

\* SpecHold: the keys that are down at the first invocation stay down; once
\* the repeat has set in, a second key may come down
HoldNext ==
    IF pass = 0 THEN HoldConfigs
    ELSE IF count > RepeatThreshold THEN {Env} \cup SecondKeyConfigs
    ELSE {Env}

LoopHold ==
    /\ pass < MaxHoldPass
    /\ \E cfg \in HoldNext : LoopEnter(cfg)

NextHold == LoopHold \/ Scan

SpecHold == Init /\ [][NextHold]_vars

\* one regular key, at most one modifier, lock switch open, keyboard enabled
IdleConfigs ==
    { cfg \in HoldConfigs : Cardinality(Regular(cfg.closed)) = 1 /\ ~cfg.lockClosed }

\* SpecIdle: a key is down from the first invocation on and released
\* after one of the invocations in ReleaseAfter (while it has been down
\* since the start, count = pass - 1); it may come down again before any
\* later invocation, which is then the last one
IdleNext ==
    IF pass = 0 THEN IdleConfigs
    ELSE IF RegularClosed # {}
         THEN IF count # pass - 1 THEN {}
              ELSE { [Env EXCEPT !.closed = closed \ RegularClosed] : r \in ReleaseAfter \cap {pass} }
                   \cup { Env : r \in { q \in ReleaseAfter : q > pass } }
    ELSE {Env} \cup { [Env EXCEPT !.closed = closed \cup {cell}] :
                        cell \in { c \in TestCells : KeyAt(c[1], c[2]) = previousKey } }

LoopIdle ==
    /\ pass < MaxIdlePass
    /\ \E cfg \in IdleNext : LoopEnter(cfg)

NextIdle == LoopIdle \/ Scan

SpecIdle == Init /\ [][NextIdle]_vars

\* SpecTap: a key is down from the first invocation on, released after
\* invocation TapHold and down again after TapGap invocations without it;
\* the modifier switches stay as they are
TapNext ==
    IF pass = 0 THEN IdleConfigs
    ELSE IF pass = TapHold THEN { [Env EXCEPT !.closed = closed \ RegularClosed] }
    ELSE IF pass = TapHold + TapGap
         THEN { [Env EXCEPT !.closed = closed \cup {cell}] :
                  cell \in { c \in TestCells : KeyAt(c[1], c[2]) = previousKey } }
    ELSE {Env}

LoopTap ==
    /\ pass < MaxTapPass
    /\ \E cfg \in TapNext : LoopEnter(cfg)

NextTap == LoopTap \/ Scan

SpecTap == Init /\ [][NextTap]_vars

\* the cells the column loop handles after cell in one pass
CellsAfter(cell) ==
    { c \in Rows \X Cols :
        /\ c[2] < ColumnsOf(c[1])
        /\ (c[1] > cell[1] \/ (c[1] = cell[1] /\ c[2] > cell[2])) }

\* the modifier read while the modifier switches among cells are closed
ModifierOf(cells) ==
    IF <<ROWS - 1, SHIFT>> \in cells THEN SHIFT
    ELSE IF <<ROWS - 1, CTRL>> \in cells THEN CTRL
    ELSE IF <<ROWS - 1, FCTN>> \in cells THEN FCTN
    ELSE 0

\* the probes of a whole enabled pass
FullOrder ==
    << <<"modifier", ROWS - 1>>, <<"lock", COLS - 1>> >>
        \o [r \in 1 .. ROWS |-> <<"row", r - 1>>]

\* The state at the end of the n-th loop() invocation when the one regular
\* key of cfg has been down since the first one and n is past the repeat
\* threshold: every invocation since has repeated the key and counted it.
HeldBoundary(cfg, n) ==
    LET cell == CHOOSE c \in Regular(cfg.closed) : TRUE
        key == KeyAt(cell[1], cell[2])
    IN  [pc |-> "loop", i |-> ROWS, j |-> ColumnsOf(ROWS - 1) - 1,
         previousRow |-> ROWS - 1, modifier |-> ModifierOf(cfg.closed),
         alphaLockOff |-> IF cfg.lockClosed THEN LOW ELSE HIGH,
         previousKey |-> key, currentKey |-> key, count |-> n - 1,
         idlecount |-> ULong(Cardinality(CellsAfter(cell))),
         alphaLock |-> IF cfg.lockClosed THEN 1 ELSE 0,
         lockTaps |-> IF cfg.lockClosed THEN 1 ELSE 0,
         rowPinMode |-> pinModeOutputLow(setup_pins_rows, ROWS - 1),
         lockPinMode |-> "INPUT_PULLUP",
         closed |-> cfg.closed, lockClosed |-> cfg.lockClosed, enablePin |-> cfg.enablePin,
         sink |-> RepeatCalls(ModifierOf(cfg.closed), key),
         order |-> FullOrder, pass |-> n]

\* the state, as a record
State ==
    [pc |-> pc, i |-> i, j |-> j, previousRow |-> previousRow, modifier |-> modifier,
     alphaLockOff |-> alphaLockOff, previousKey |-> previousKey, currentKey |-> currentKey,
     count |-> count, idlecount |-> idlecount, alphaLock |-> alphaLock,
     lockTaps |-> lockTaps,
     rowPinMode |-> rowPinMode, lockPinMode |-> lockPinMode, closed |-> closed,
     lockClosed |-> lockClosed, enablePin |-> enablePin, sink |-> sink, order |-> order,
     pass |-> pass]

\* SpecWrap starts where SpecHold leads when the key stays down long enough
\* for count to come near the largest int: HoldReachesBoundary, an invariant
\* of SpecHold, is the step of that induction, and nothing in a pass but
\* the test count > 150 and the increment depends on the value of count
WrapStart == MaxInt - WrapLead

InitWrap ==
    \E cfg \in IdleConfigs :
        LET held == HeldBoundary(cfg, WrapStart)
        IN  /\ pc = held.pc
            /\ i = held.i
            /\ j = held.j
            /\ previousRow = held.previousRow
            /\ modifier = held.modifier
            /\ alphaLockOff = held.alphaLockOff
            /\ previousKey = held.previousKey
            /\ currentKey = held.currentKey
            /\ count = held.count
            /\ idlecount = held.idlecount
            /\ alphaLock = held.alphaLock
            /\ lockTaps = held.lockTaps
            /\ rowPinMode = held.rowPinMode
            /\ lockPinMode = held.lockPinMode
            /\ closed = held.closed
            /\ lockClosed = held.lockClosed
            /\ enablePin = held.enablePin
            /\ sink = held.sink
            /\ order = held.order
            /\ pass = held.pass

LoopWrap ==
    /\ pass < MaxInt + WrapTail
    /\ \E cfg \in {Env} \cup SecondKeyConfigs : LoopEnter(cfg)

NextWrap == LoopWrap \/ Scan

SpecWrap == InitWrap /\ [][NextWrap]_vars

\* In SpecHold, a single key held from the start is, from the invocation
\* in which the repeat sets in, in the state HeldBoundary names
HoldReachesBoundary ==
    (pc = "loop" /\ pass > RepeatThreshold + 1 /\ Cardinality(RegularClosed) = 1)
        => State = HeldBoundary(Env, pass)

-----------------------------------------------------------------------------
(* What the properties below read off the state *)

\* the regular closed cells the column loop of this invocation has already handled
AssertedRead ==
    { cell \in RegularClosed :
        \/ pc = "loop" /\ order # << >>
        \/ pc \in {"scan_row", "scan_row_drive"} /\ cell[1] < i
        \/ pc = "columns" /\ (cell[1] < i \/ (cell[1] = i /\ cell[2] < j)) }

\* how many entries of seq satisfy Test
CountIf(seq, Test(_)) == Len(SelectSeq(seq, Test))

IsModifierPress(e) ==
    e[1] = "press" /\ e[2] \in {KEY_LEFT_SHIFT, KEY_LEFT_CTRL, KEY_LEFT_ALT}

IsKeyPress(e) ==
    e[1] = "press" /\ e[2] \notin {KEY_LEFT_SHIFT, KEY_LEFT_CTRL, KEY_LEFT_ALT, KEY_CAPS_LOCK}

IsFreshHold(e) == e = <<"delay", KBD_DELAY>>

IsRepeatHold(e) == e = <<"delay", RPT_DELAY>>

\* emissions of this invocation: fresh ones, repeats, all
FreshEmissions == CountIf(sink, IsFreshHold)

RepeatEmissions == CountIf(sink, IsRepeatHold)

Emissions == CountIf(sink, IsKeyPress)

\* the calls of this invocation without the caps lock tap of the lock probe
IsScanCall(e) == e[2] # KEY_CAPS_LOCK

ScanCalls == SelectSeq(sink, IsScanCall)

\* the rows sampled by this invocation, in the order they were activated
IsRowProbe(e) == e[1] = "row"

RowsScanned == SelectSeq(order, IsRowProbe)

\* the modifier the priority order SHIFT, CTRL, FCTN picks among the closed
\* modifier switches, and the key code sent for it
PriorityModifier ==
    IF <<ROWS - 1, 5>> \in closed THEN 5
    ELSE IF <<ROWS - 1, 6>> \in closed THEN 6
    ELSE IF <<ROWS - 1, 7>> \in closed THEN 7
    ELSE 0

ModifierCalls ==
    IF modifier = 5 THEN << <<"press", 129>> >>
    ELSE IF modifier = 6 THEN << <<"press", 128>> >>
    ELSE IF modifier = 7 THEN << <<"press", 130>> >>
    ELSE << >>

\* the rows driven LOW
RowsAsserted == { r \in Rows : rowPinMode[r] = "OUTPUT" }

\* a loop() invocation has just ended in which one regular key and no
\* modifier was down
HeldSingle ==
    /\ pc = "loop"
    /\ pass >= 1
    /\ modifier = 0
    /\ Cardinality(RegularClosed) = 1

\* the key code of that key
HeldKey == LET cell == CHOOSE c \in RegularClosed : TRUE IN KeyAt(cell[1], cell[2])

-----------------------------------------------------------------------------
(* C1.  As claimed: a single key held from the start, no modifier: cycle 1  *)
(* emits a fresh press, cycles 2..150 emit no press, and cycle 151 emits   *)
(* the first repeat, held for RPT_DELAY.                                   *)
C1_RepeatOnCycle151 ==
    HeldSingle =>
        /\ pass = 1 =>
              ScanCalls = << <<"press", HeldKey>>, <<"delay", 150>>, <<"releaseAll", 0>> >>
        /\ pass \in 2 .. 150 => Emissions = 0
        /\ pass = 151 =>
              ScanCalls = << <<"press", HeldKey>>, <<"delay", 50>>, <<"releaseAll", 0>> >>

(* C1, amended.  Cycle 1 emits a fresh press, cycles 2..151 emit no press  *)
(* (count goes from 1 to 150), and cycle 152, where count becomes 151,     *)
(* emits the first repeat, held for RPT_DELAY.                             *)
C1_RepeatOnCycle152 ==
    HeldSingle =>
        /\ pass = 1 =>
              ScanCalls = << <<"press", HeldKey>>, <<"delay", 150>>, <<"releaseAll", 0>> >>
        /\ pass \in 2 .. 151 => Emissions = 0 /\ count = pass - 1
        /\ pass = 152 =>
              ScanCalls = << <<"press", HeldKey>>, <<"delay", 50>>, <<"releaseAll", 0>> >>

C1_Witness ==
    /\ HeldSingle
    /\ pass = 152
    /\ count = 151
    /\ ScanCalls = << <<"press", 113>>, <<"delay", 50>>, <<"releaseAll", 0>> >>

-----------------------------------------------------------------------------
(* C2.  As claimed: within a pass the rows are sampled in increasing order  *)
(* 0..ROWS-1 and the lock probe of the pass comes after row ROWS-1 of the  *)
(* same pass.                                                              *)
C2_LockProbeAfterLastRow ==
    /\ \A k \in DOMAIN RowsScanned : RowsScanned[k] = <<"row", k - 1>>
    /\ \A k \in DOMAIN order :
         order[k][1] = "lock" => \E m \in 1 .. (k - 1) : order[m] = <<"row", ROWS - 1>>

(* C2, amended.  Within an enabled pass the rows are sampled in increasing  *)
(* order 0..ROWS-1, all of them by the end of the pass, and the lock probe *)
(* of the pass is the second probe, after the modifier probe and before    *)
(* row 0 is activated.                                                     *)
C2_LockProbeBeforeRows ==
    /\ \A k \in DOMAIN RowsScanned : RowsScanned[k] = <<"row", k - 1>>
    /\ \A k \in DOMAIN order : order[k][1] = "lock" <=> k = 2
    /\ \A k \in DOMAIN order : order[k][1] = "row" => k > 2
    /\ (pc = "loop" /\ order # << >>) => Len(RowsScanned) = ROWS

C2_Witness ==
    /\ pc = "loop"
    /\ Len(order) = ROWS + 2
    /\ order[2][1] = "lock"
    /\ order[ROWS + 2] = <<"row", ROWS - 1>>

-----------------------------------------------------------------------------
-----------------------------------------------------------------------------
(* C4.  Whenever a cell is read whose key differs from previousKey, the     *)
(* sink receives press(modifier) exactly when a modifier was detected at   *)
(* the start of the pass, then press(key), the KBD_DELAY hold and          *)
(* releaseAll(), with nothing in between; afterwards previousKey is the    *)
(* key and count and idlecount are 0.                                      *)
C4_FreshPress ==
    [][ (pc = "columns" /\ <<i, j>> \in closed /\ KeyAt(i, j) # previousKey)
        => /\ modifier = PriorityModifier
           /\ sink' = sink \o ModifierCalls
                        \o << <<"press", KeyAt(i, j)>>, <<"delay", 150>>, <<"releaseAll", 0>> >>
           /\ previousKey' = KeyAt(i, j)
           /\ count' = 0
           /\ idlecount' = <<0, 0>> ]_vars

C4_Witness ==
    /\ pc = "columns"
    /\ i = 0 /\ j = 7
    /\ sink = << <<"press", 129>>, <<"press", 113>>, <<"delay", 150>>, <<"releaseAll", 0>> >>
    /\ previousKey = 113
    /\ count = 0
    /\ idlecount = <<0, 0>>

-----------------------------------------------------------------------------
(* C5.  From the end of setup() on, at most one row line is an output       *)
(* driven LOW, and between the two halves of scan_row() none is.           *)
C5_SingleRowActive ==
    /\ Cardinality(RowsAsserted) <= 1
    /\ pc = "scan_row_drive" => RowsAsserted = {}
    /\ pc = "columns" => RowsAsserted = {i}

C5_Witness ==
    /\ pc = "columns"
    /\ i = 3
    /\ RowsAsserted = {3}

-----------------------------------------------------------------------------
(* C6.  The lock probe samples the lock switch; it taps caps lock (press   *)
(* then release) exactly when the sample differs from alphaLock, and then  *)
(* alphaLock is the sample; otherwise nothing is sent and alphaLock stays. *)
C6_LockEdgeTrigger ==
    [][ /\ pc = "checkAlphaLock" => ((alphaLockOff' = 0) <=> lockClosed)
        /\ pc = "alphaLockLatch" =>
             IF (alphaLockOff = 0) # (alphaLock = 1)
             THEN /\ sink' = sink \o << <<"press", 193>>, <<"release", 193>> >>
                  /\ (alphaLock' = 1) <=> (alphaLockOff = 0)
                  /\ alphaLock' \in {0, 1}
             ELSE /\ sink' = sink
                  /\ alphaLock' = alphaLock ]_vars

C6_Witness ==
    /\ pc = "scan_row"
    /\ i = 0
    /\ pass = 2
    /\ lockClosed
    /\ alphaLock = 1
    /\ sink = << >>

-----------------------------------------------------------------------------
(* C7.  A loop() invocation that reads the enable pin not HIGH sends       *)
(* nothing to the sink and leaves previousKey, count, idlecount, alphaLock *)
(* and the pins as they were.                                              *)
C7_DisabledSuppresses ==
    [][ (pc = "loop" /\ enablePin' # 1)
        => /\ sink' = << >>
           /\ pc' = "loop"
           /\ UNCHANGED <<previousKey, currentKey, count, idlecount, alphaLock,
                          rowPinMode, lockPinMode>> ]_vars

C7_Witness ==
    /\ pc = "loop"
    /\ pass = 2
    /\ enablePin = 0
    /\ RegularClosed # {}
    /\ lockClosed
    /\ alphaLock = 0
    /\ previousKey = 113
    /\ sink = << >>

-----------------------------------------------------------------------------
(* C8.  modifierPressed returns the first closed modifier in the order     *)
(* SHIFT, CTRL, FCTN and 0 when none is closed, for every combination of   *)
(* the three; an emission presses at most one modifier.                    *)
C8_ModifierPriority ==
    /\ pc # "loop" => modifier = PriorityModifier
    /\ CountIf(sink, IsModifierPress) <= Emissions
    /\ \A k \in DOMAIN sink :
         (IsModifierPress(sink[k]) /\ k < Len(sink)) => IsKeyPress(sink[k + 1])

C8_Witness ==
    /\ pc = "checkAlphaLock"
    /\ <<5, 5>> \in closed
    /\ <<5, 6>> \in closed
    /\ modifier = 5

-----------------------------------------------------------------------------
(* C9.  When a cell is read whose key equals previousKey while idlecount   *)
(* is at least 10000, the read is a fresh press: modifier if any, key,     *)
(* KBD_DELAY hold, releaseAll; count and idlecount become 0 and count is   *)
(* not incremented.                                                        *)
C9_IdleTimeoutFresh ==
    [][ (/\ pc = "columns"
         /\ <<i, j>> \in closed
         /\ KeyAt(i, j) = previousKey
         /\ (idlecount[1] > 0 \/ idlecount[2] >= 10000))
        => /\ sink' = sink \o ModifierCalls
                        \o << <<"press", previousKey>>, <<"delay", 150>>, <<"releaseAll", 0>> >>
           /\ count' = 0
           /\ idlecount' = <<0, 0>>
           /\ previousKey' = previousKey ]_vars

\* in SpecIdle only one key is ever pressed, so a fresh emission after the
\* first pass is one the idle timeout made
C9_Witness ==
    /\ pc = "loop"
    /\ pass > 20
    /\ count = 0
    /\ previousKey = 113
    /\ ScanCalls = << <<"press", 113>>, <<"delay", 150>>, <<"releaseAll", 0>> >>

-----------------------------------------------------------------------------
(* C10.  As claimed: once count has exceeded 150 for a key, every further   *)
(* read of that key while it stays held emits a repeat (modifier if any,   *)
(* key, RPT_DELAY hold, releaseAll), without bound; the repeat resets      *)
(* idlecount only and count keeps exceeding 150.                           *)
C10_RepeatKeepsFiring ==
    [][ (/\ pc = "columns"
         /\ <<i, j>> \in closed
         /\ KeyAt(i, j) = previousKey
         /\ count > 150
         /\ idlecount[1] = 0 /\ idlecount[2] < 10000)
        => /\ sink' = sink \o ModifierCalls
                        \o << <<"press", previousKey>>, <<"delay", 50>>, <<"releaseAll", 0>> >>
           /\ idlecount' = <<0, 0>>
           /\ count' > 150 ]_vars

-----------------------------------------------------------------------------
(* C11.  Every cell below columns[r] has a key other than '\0', no          *)
(* columns[r] exceeds COLS, the modifier columns SHIFT, CTRL and FCTN are   *)
(* not below columns[ROWS-1]; so the column loop only ever stands on a     *)
(* cell that has a key and is no modifier switch, currentKey is never set  *)
(* to '\0' and no press of '\0' is sent.                                    *)
C11_TopologyComplete ==
    /\ \A r \in Rows :
         /\ columns[r + 1] <= COLS
         /\ \A c \in 0 .. (columns[r + 1] - 1) : keys[r + 1][c + 1] # 0
    /\ \A m \in {SHIFT, CTRL, FCTN} : m >= columns[ROWS]
    /\ pc = "columns" =>
         /\ i \in Rows /\ j \in Cols
         /\ <<i, j>> \notin ModCells
         /\ keys[i + 1][j + 1] # 0
    /\ \A k \in DOMAIN sink : sink[k][1] = "press" => sink[k][2] # 0
    /\ currentKey = 0 => previousKey = 0

\* space and two modifiers on the last row: the pass sends shift and space only
C11_Witness ==
    /\ pc = "loop"
    /\ closed = { <<5, 1>>, <<5, 5>>, <<5, 6>> }
    /\ ScanCalls = << <<"press", 129>>, <<"press", 32>>, <<"delay", 150>>, <<"releaseAll", 0>> >>
    /\ currentKey = 32

-----------------------------------------------------------------------------
\* the column samples a pass takes before it stands on column c of row r
SamplesBefore(r, c) ==
    Cardinality({ cell \in Rows \X Cols :
                    /\ cell[2] < columns[cell[1] + 1]
                    /\ (cell[1] < r \/ (cell[1] = r /\ cell[2] < c)) })

\* the column samples of a whole pass
SamplesPerPass == SamplesBefore(ROWS, 0)

\* the rows this invocation has scanned to the end, when it stands between rows
RowsDone == IF pc \in {"scan_row", "scan_row_drive"} THEN i ELSE 0

\* the column samples this invocation has taken
SamplesDone ==
    IF pc \in {"scan_row", "scan_row_drive"} THEN SamplesBefore(i, 0)
    ELSE IF pc = "columns" THEN SamplesBefore(i, j)
    ELSE 0

(* C12.  As claimed: a row scanned without an asserted column adds exactly  *)
(* one to idlecount and sends nothing, idlecount counting rows: as long as *)
(* no cell was ever read asserted (previousKey is still 0), between rows   *)
(* idlecount is the number of rows scanned so far, ROWS for every whole    *)
(* pass.                                                                   *)
C12_IdleCountsRows ==
    previousKey = 0 =>
        /\ ScanCalls = << >>
        /\ pc # "columns" => idlecount[2] % ROWS = RowsDone

(* C12, amended.  Every column sample that reads not asserted adds exactly  *)
(* one to idlecount and sends nothing; a row scanned without an asserted   *)
(* column adds columns[r], 8 or 3 for the last row: as long as no cell was *)
(* ever read asserted, idlecount is the number of column samples taken so  *)
(* far, 43 for every whole pass.                                           *)
C12_IdleCountsSamples ==
    [][ /\ (pc = "columns" /\ <<i, j>> \notin closed) =>
              /\ idlecount' = <<idlecount[1], idlecount[2] + 1>>
              /\ sink' = sink
        /\ previousKey' = 0 =>
              /\ ScanCalls' = << >>
              /\ idlecount'[1] = 0
              /\ idlecount'[2] % SamplesPerPass = SamplesDone' ]_vars

\* row 0 and row 1 scanned, nothing asserted: 16 samples counted
C12_Witness ==
    /\ pc = "scan_row"
    /\ i = 2
    /\ previousKey = 0
    /\ idlecount = <<0, 16>>
    /\ sink = << >>

-----------------------------------------------------------------------------
\* SpecTap, at the end of invocation pass: the invocations in a row, up to
\* this one, that read the key without a fresh press
TapRun ==
    IF pass <= TapHold THEN pass - 1
    ELSE IF pass <= TapHold + TapGap THEN 0
    ELSE pass - (TapHold + TapGap)

\* SpecTap, at the end of invocation pass: the invocations since the fresh
\* press of the first one that read the key, in a row or not
TapReads ==
    IF pass <= TapHold THEN pass - 1
    ELSE IF pass <= TapHold + TapGap THEN TapHold - 1
    ELSE pass - 1 - TapGap

(* C13.  As claimed: count is the number of consecutive invocations, since  *)
(* the last fresh press, that read the held key equal to previousKey; an   *)
(* invocation that does not read the key breaks the run, so a repeat is    *)
(* only sent after more than 150 consecutive invocations read the key.     *)
C13_CountsConsecutiveCycles ==
    (pc = "loop" /\ pass >= 1 /\ RegularClosed # {}) =>
        /\ count = TapRun
        /\ RepeatEmissions > 0 => TapRun > 150

(* C13, amended.  count is the number of reads, since the last fresh press, *)
(* that found the key equal to previousKey without being fresh presses     *)
(* themselves: such a read adds one, a fresh press sets it to 0 and        *)
(* nothing else changes it; an invocation that does not read the key       *)
(* leaves count as it is.  A repeat is sent once more than 150 such reads  *)
(* have been made, in consecutive invocations or not.                      *)
C13_CountsReadsSinceFresh ==
    [][ /\ count' = IF pc = "columns" /\ <<i, j>> \in closed
                    THEN IF \/ KeyAt(i, j) # previousKey
                            \/ idlecount[1] > 0
                            \/ idlecount[2] >= 10000
                         THEN 0
                         ELSE count + 1
                    ELSE count
        /\ (pc' = "loop" /\ pass' >= 1) =>
              /\ count' = TapReads'
              /\ RepeatEmissions' > 0 <=> (RegularClosed' # {} /\ TapReads' > 150) ]_vars

\* a repeat in an invocation before which the key was read in at most 150
\* invocations in a row
C13_Witness ==
    /\ pc = "loop"
    /\ pass > TapHold + TapGap
    /\ TapRun <= 150
    /\ count = 151
    /\ RepeatEmissions = 1

-----------------------------------------------------------------------------
\* the cell the column loop stands on is closed, its key is previousKey, the
\* idle timeout has not been reached and count + 1 does not exceed 150
HoldBelowThreshold ==
    /\ pc = "columns"
    /\ <<i, j>> \in closed
    /\ KeyAt(i, j) = previousKey
    /\ idlecount[1] = 0 /\ idlecount[2] < 10000
    /\ count + 1 <= 150

(* C14.  As claimed: a sustained hold below the threshold sends nothing to  *)
(* the sink, no press, no release and no releaseAll; it adds one to count, *)
(* sets previousKey to the key and leaves idlecount as it is.              *)
C14_HoldSendsNothing ==
    [][ HoldBelowThreshold
        => /\ sink' = sink
           /\ count' = count + 1
           /\ previousKey' = KeyAt(i, j)
           /\ idlecount' = idlecount ]_vars

(* C14, amended.  A sustained hold below the threshold sends no press and   *)
(* holds no delay, but it does call releaseAll() once; it adds one to      *)
(* count, sets previousKey to the key and leaves idlecount, alphaLock and  *)
(* the pins as they are.                                                   *)
C14_HoldSendsReleaseAll ==
    [][ HoldBelowThreshold
        => /\ sink' = Append(sink, <<"releaseAll", 0>>)
           /\ count' = count + 1
           /\ previousKey' = KeyAt(i, j)
           /\ currentKey' = KeyAt(i, j)
           /\ UNCHANGED <<idlecount, modifier, alphaLock, rowPinMode, lockPinMode>> ]_vars

\* the last invocation before the repeat sets in: count becomes 150
C14_Witness ==
    /\ HeldSingle
    /\ pass = 151
    /\ count = 150
    /\ ScanCalls = << <<"releaseAll", 0>> >>

-----------------------------------------------------------------------------
(* C15.  When the lock column is sampled every row line is an input and    *)
(* the lock line is the only line driven LOW, so the sample is the state   *)
(* of the lock switch whatever matrix switches are closed; at every other  *)
(* position the lock line is an input with pull-up, so it is never driven  *)
(* while a row is driven.                                                  *)
C15_LockProbeIsolated ==
    /\ pc = "alphaLockLatch" =>
         /\ RowsAsserted = {}
         /\ lockPinMode = "OUTPUT"
         /\ (alphaLockOff = 0) <=> lockClosed
    /\ pc # "alphaLockLatch" => lockPinMode = "INPUT_PULLUP"
    /\ RowsAsserted # {} => lockPinMode # "OUTPUT"

\* FCTN, on the lock column of the last row, is down and the lock switch is
\* open: the sample reads HIGH
C15_Witness ==
    /\ pc = "alphaLockLatch"
    /\ <<5, 7>> \in closed
    /\ modifier = 7
    /\ ~lockClosed
    /\ alphaLockOff = 1
    /\ lockPinMode = "OUTPUT"

-----------------------------------------------------------------------------
(* C16.  An enabled invocation samples the modifier columns exactly once,   *)
(* as its first probe, before the lock probe and before any row is         *)
(* scanned; wherever loop() is entered, after setup(), after an enabled    *)
(* and after a disabled invocation, row ROWS-1 is the only line driven     *)
(* LOW, so the sample is the first closed modifier switch in the order     *)
(* SHIFT, CTRL, FCTN; that value stays for the rest of the invocation and  *)
(* every key press of the invocation is preceded by its press, or by none  *)
(* when it is 0.                                                           *)
C16_ModifierProbedOnce ==
    /\ pc \in {"loop", "checkAlphaLock"} =>
         /\ RowsAsserted = {ROWS - 1}
         /\ lockPinMode = "INPUT_PULLUP"
    /\ pc # "loop" => order # << >>
    /\ order # << >> =>
         /\ order[1] = <<"modifier", ROWS - 1>>
         /\ \A k \in 2 .. Len(order) : order[k][1] # "modifier"
         /\ modifier = PriorityModifier
         /\ \A k \in DOMAIN sink :
              IsKeyPress(sink[k]) =>
                  IF modifier = 0
                  THEN k = 1 \/ ~IsModifierPress(sink[k - 1])
                  ELSE k > 1 /\ << sink[k - 1] >> = ModifierCalls

\* the first invocation after setup(): CTRL and FCTN down, q and b pressed
C16_Witness ==
    /\ pc = "loop"
    /\ pass = 1
    /\ closed = { <<0, 6>>, <<4, 4>>, <<5, 6>>, <<5, 7>> }
    /\ modifier = 6
    /\ ScanCalls = << <<"press", 128>>, <<"press", 113>>, <<"delay", 150>>, <<"releaseAll", 0>>,
                      <<"press", 128>>, <<"press", 98>>, <<"delay", 150>>, <<"releaseAll", 0>> >>

-----------------------------------------------------------------------------
\* the keys the host sees held after the calls of seq, none being held before
RECURSIVE HeldAfter(_)
HeldAfter(seq) ==
    IF seq = << >> THEN {}
    ELSE LET before == HeldAfter(SubSeq(seq, 1, Len(seq) - 1))
             call == seq[Len(seq)]
         IN  IF call[1] = "press" THEN before \cup {call[2]}
             ELSE IF call[1] = "release" THEN before \ {call[2]}
             ELSE IF call[1] = "releaseAll" THEN {}
             ELSE before

\* the keys held after the first n calls of this invocation
HeldAt(n) == HeldAfter(SubSeq(sink, 1, n))

(* C17.  Between the handling of two cells, after the lock probe, at the    *)
(* end of every invocation and throughout a disabled one no key is held    *)
(* on the host: every press is followed, in the calls made for the same    *)
(* cell or the same lock probe, by releaseAll() or by the release of that  *)
(* key; while an emission lasts the key is held alone or together with     *)
(* the one modifier.                                                       *)
C17_NothingLeftHeld ==
    /\ HeldAfter(sink) = {}
    /\ (pc = "loop" /\ enablePin # 1) => sink = << >>
    /\ \A k \in DOMAIN sink :
         /\ sink[k][1] = "press" =>
              \E m \in (k + 1) .. Len(sink) :
                  /\ sink[m] \in { <<"releaseAll", 0>>, <<"release", sink[k][2]>> }
                  /\ m <= k + 3
         /\ Cardinality(HeldAt(k)) <= 2
         /\ Cardinality(HeldAt(k)) = 2 => HeldAt(k) \cap {128, 129, 130} # {}

\* a caps lock tap and a shifted q in one invocation
C17_Witness ==
    /\ pc = "loop"
    /\ sink = << <<"press", 193>>, <<"release", 193>>,
                 <<"press", 129>>, <<"press", 113>>, <<"delay", 150>>, <<"releaseAll", 0>> >>
    /\ HeldAt(1) = {193}
    /\ HeldAt(2) = {}
    /\ HeldAt(5) = {129, 113}
    /\ HeldAt(6) = {}

-----------------------------------------------------------------------------
(* C18.  In every state alphaLock is 1 exactly when the number of caps lock *)
(* taps sent since setup() is odd, and it is 0 or 1; so a host whose caps  *)
(* lock starts off and is toggled by these taps alone has caps lock on     *)
(* exactly when alphaLock is 1, which after a lock probe is exactly when   *)
(* the lock switch was found closed.                                       *)
C18_LockTapParity ==
    /\ alphaLock \in {0, 1}
    /\ (alphaLock = 1) <=> (lockTaps = 1)
    /\ pc \in {"scan_row", "scan_row_drive", "columns"} => ((lockTaps = 1) <=> lockClosed)
    /\ LockTapsIn(sink) <= 1

\* the lock probe has just tapped caps lock off: the second tap, or a later
\* even one
C18_Witness ==
    /\ pc = "scan_row"
    /\ i = 0
    /\ ~lockClosed
    /\ sink = << <<"press", 193>>, <<"release", 193>> >>
    /\ alphaLock = 0
    /\ lockTaps = 0

-----------------------------------------------------------------------------
(* C19.  An enabled invocation during which modifier switches are closed    *)
(* and no regular switch is sends nothing but, possibly, the caps lock tap *)
(* of the lock probe; and every press of left shift, left control or left  *)
(* alt is followed at once by the press of a regular key, its delay and    *)
(* releaseAll().                                                           *)
C19_NoModifierAlone ==
    /\ (order # << >> /\ closed # {} /\ RegularClosed = {}) => ScanCalls = << >>
    /\ \A k \in DOMAIN sink :
         sink[k][1] = "press" /\ sink[k][2] \in {128, 129, 130} =>
             /\ k + 3 <= Len(sink)
             /\ sink[k + 1][1] = "press"
             /\ sink[k + 1][2] \notin {0, 128, 129, 130, 193}
             /\ sink[k + 2][1] = "delay"
             /\ sink[k + 3] = <<"releaseAll", 0>>

\* a whole invocation with SHIFT and FCTN down and nothing else
C19_Witness ==
    /\ pc = "loop"
    /\ order # << >>
    /\ closed = { <<5, 5>>, <<5, 7>> }
    /\ modifier = 5
    /\ previousKey = 0
    /\ sink = << >>

-----------------------------------------------------------------------------
(* A keyboard left alone: a key is tapped and then nothing is pressed for  *)
(* as long as it takes idlecount to pass the largest unsigned long.        *)

\* the whole invocations without a key whose samples fit into an unsigned
\* long: 2^32 \div SamplesPerPass, computed in halves
PassesToWrap ==
    (HalfMod \div SamplesPerPass) * HalfMod
        + ((HalfMod % SamplesPerPass) * HalfMod) \div SamplesPerPass

\* the unsigned long a + SamplesPerPass * n, for a small a
IdleSamples(a, n) ==
    LET low == SamplesPerPass * (n % HalfMod) + a
    IN  << (SamplesPerPass * (n \div HalfMod) + low \div HalfMod) % HalfMod, low % HalfMod >>

\* The state at the end of invocation r + n when the one regular key of cfg
\* was down for the first r invocations and no key for the n >= 1 that
\* followed: each of these added SamplesPerPass to idlecount, and each
\* invocation that held the key, without a press, one less.
IdleBoundary(cfg, r, n) ==
    LET cell == CHOOSE c \in Regular(cfg.closed) : TRUE
        key == KeyAt(cell[1], cell[2])
        mods == cfg.closed \ Regular(cfg.closed)
    IN  [pc |-> "loop", i |-> ROWS, j |-> ColumnsOf(ROWS - 1) - 1,
         previousRow |-> ROWS - 1, modifier |-> ModifierOf(mods),
         alphaLockOff |-> HIGH,
         previousKey |-> key, currentKey |-> key, count |-> r - 1,
         idlecount |-> IdleSamples(Cardinality(CellsAfter(cell))
                                     + (SamplesPerPass - 1) * (r - 1), n),
         alphaLock |-> 0,
         lockTaps |-> 0,
         rowPinMode |-> pinModeOutputLow(setup_pins_rows, ROWS - 1),
         lockPinMode |-> "INPUT_PULLUP",
         closed |-> mods, lockClosed |-> FALSE, enablePin |-> HIGH,
         sink |-> << >>,
         order |-> FullOrder, pass |-> r + n]

\* In SpecIdle, from the invocation after the release on, the state at the
\* end of an invocation without a key is the one IdleBoundary names
IdleReachesBoundary ==
    (pc = "loop" /\ RegularClosed = {} /\ previousKey # 0) =>
        \E cell \in TestCells :
            /\ KeyAt(cell[1], cell[2]) = previousKey
            /\ State = IdleBoundary([Env EXCEPT !.closed = closed \cup {cell}],
                                    count + 1, pass - (count + 1))

\* SpecIdleWrap starts where SpecIdle leads when the key was released after
\* the first invocation and the keyboard is left alone: nothing in an
\* invocation without a key depends on idlecount but its increment
IdleWrapStart == PassesToWrap - IdleWrapLead

InitIdleWrap ==
    \E cfg \in IdleConfigs :
        LET idle == IdleBoundary(cfg, 1, IdleWrapStart)
        IN  /\ pc = idle.pc
            /\ i = idle.i
            /\ j = idle.j
            /\ previousRow = idle.previousRow
            /\ modifier = idle.modifier
            /\ alphaLockOff = idle.alphaLockOff
            /\ previousKey = idle.previousKey
            /\ currentKey = idle.currentKey
            /\ count = idle.count
            /\ idlecount = idle.idlecount
            /\ alphaLock = idle.alphaLock
            /\ lockTaps = idle.lockTaps
            /\ rowPinMode = idle.rowPinMode
            /\ lockPinMode = idle.lockPinMode
            /\ closed = idle.closed
            /\ lockClosed = idle.lockClosed
            /\ enablePin = idle.enablePin
            /\ sink = idle.sink
            /\ order = idle.order
            /\ pass = idle.pass

\* the keyboard stays as it is, or the key tapped last comes down again
\* and stays down
IdleWrapNext ==
    IF RegularClosed # {} THEN {Env}
    ELSE {Env} \cup { [Env EXCEPT !.closed = closed \cup {cell}] :
                        cell \in { c \in TestCells : KeyAt(c[1], c[2]) = previousKey } }

LoopIdleWrap ==
    /\ pass < 1 + PassesToWrap + IdleWrapTail
    /\ \E cfg \in IdleWrapNext : LoopEnter(cfg)

NextIdleWrap == LoopIdleWrap \/ Scan

SpecIdleWrap == InitIdleWrap /\ [][NextIdleWrap]_vars

\* a <= b on unsigned longs
ULongLE(a, b) == a[1] < b[1] \/ (a[1] = b[1] /\ a[2] <= b[2])

\* this step sends a key press
StepEmits == Len(SelectSeq(sink', IsKeyPress)) > Len(SelectSeq(sink, IsKeyPress))

(* C20.  As claimed: idlecount never decreases except by being set to 0 in  *)
(* a step that sends a fresh press or a repeat; once it is at least 10000  *)
(* it stays so until the next such step, however long the keyboard is left *)
(* alone; so a read of previousKey's cell after an idle period of 10000    *)
(* samples or more, of whatever length, is a fresh press.                  *)
C20_IdleGuardMonotone ==
    [][ /\ pc \in {"checkAlphaLock", "alphaLockLatch", "scan_row", "scan_row_drive", "columns"} =>
              IF StepEmits THEN idlecount' = <<0, 0>>
              ELSE /\ ULongLE(idlecount, idlecount')
                   /\ (idlecount[1] > 0 \/ idlecount[2] >= 10000)
                         => (idlecount'[1] > 0 \/ idlecount'[2] >= 10000)
        /\ pc = "loop" => idlecount' = idlecount ]_vars

=============================================================================
